---- MODULE Spec2Model ----
(***************************************************************************)
(* A model of app/scrapers/youtube.py: the feed URL builder, the feed      *)
(* normalisation, the time filter, the caption fetch and the single- and   *)
(* multi-channel orchestration.                                            *)
(*                                                                         *)
(* Python strings that the code inspects (identifiers, URLs, caption text) *)
(* are sequences of one-character strings.  Optional[X] is a sequence of   *)
(* length at most one: None is <<>>, a value x is <<x>>.  Timestamps are   *)
(* integers counting hours.                                                *)
(***************************************************************************)
EXTENDS Integers, Sequences, FiniteSets, TLC

VARIABLES
  entry,            \* the public function that was called
  pc,               \* position of the control flow
  ret,              \* outcome of get_channel_rss_url / _extract_video_id_from_url
  genericErrors,    \* TRUE when the ImportError fallback bound the four error names to Exception
  channel_ids,      \* fetch_multiple_channels: argument
  hours,            \* argument
  get_transcripts,  \* argument
  languages,        \* argument
  idx,              \* fetch_multiple_channels: position of the for loop
  results,          \* fetch_multiple_channels: the dict, a function from its keys
  channel_id,       \* fetch_channel_videos: argument
  rss_url,          \* fetch_channel_videos: local
  feed,             \* the document feedparser.parse returned
  feed_requests,    \* URLs handed to feedparser.parse during the current fetch_channel_videos
  all_videos,       \* fetch_channel_videos: local / filter_videos_by_time: argument
  cutoff_time,      \* filter_videos_by_time: local
  recent_videos,    \* fetch_channel_videos: local / filter_videos_by_time: result
  vi,               \* fetch_channel_videos: position of the for loop over recent_videos
  fo_ret,           \* outcome of fetch_channel_videos
  list_requests,    \* positions in recent_videos for which list_transcripts was requested
  url,              \* _extract_video_id_from_url: argument
  video_id,         \* get_video_transcript: argument
  src,              \* get_video_transcript: position in the order of sources
  t_log,            \* requests made to the captions service by the current get_video_transcript
  t_last,           \* what the captions service answered to the last request
  t_ret,            \* outcome of get_video_transcript
  utcnow,           \* history: the reading of the clock by filter_videos_by_time
  t_calls,          \* history: the calls of get_video_transcript made by the current fetch_channel_videos
  fm_trace          \* history: the outcome of fetch_channel_videos for each channel processed

vars == <<entry, pc, ret, genericErrors, channel_ids, hours, get_transcripts,
          languages, idx, results, channel_id, rss_url, feed, feed_requests,
          all_videos, cutoff_time, recent_videos, vi, fo_ret, list_requests,
          url, video_id, src, t_log, t_last, t_ret, utcnow, t_calls, fm_trace>>

---------------------------------------------------------------------------
(* Values *)

None == <<>>

Some(x) == <<x>>

Return(v) == [kind |-> "return", val |-> v]

Raise(e, m) == [kind |-> "raise", exc |-> e, msg |-> m]

NoOutcome == [kind |-> "none"]

\* All sequences over S of length at most n.
SeqsUpTo(S, n) == UNION {[1..k -> S] : k \in 0..n}

---------------------------------------------------------------------------
(* get_channel_rss_url *)

UC == <<"U","C">>

FeedUrlPrefix == <<"h","t","t","p","s",":","/","/","w","w","w",".","y","o","u","t","u","b","e",".","c","o","m","/","f","e","e","d","s","/","v","i","d","e","o","s",".","x","m","l","?","c","h","a","n","n","e","l","_","i","d","=">>

\* A slip that compares the prefix without regard to case.
startswith_nocase(s, p) ==
  LET up(c) == IF c = "u" THEN "U" ELSE IF c = "c" THEN "C" ELSE c
  IN  Len(s) >= Len(p) /\ [i \in 1..Len(p) |-> up(s[i])] = p

\* str.startswith
startswith(s, p) == Len(s) >= Len(p) /\ SubSeq(s, 1, Len(p)) = p

get_channel_rss_url(cid) ==
  IF ~startswith(cid, UC)
  THEN Raise("ValueError", "Invalid channel ID format")
  ELSE Return(FeedUrlPrefix \o cid)

---------------------------------------------------------------------------
(* _extract_video_id_from_url *)

VidLen == 11

Lower == {"a","b","c","d","e","f","g","h","i","j","k","l","m","n","o","p","q","r","s","t","u","v","w","x","y","z"}

Upper == {"A","B","C","D","E","F","G","H","I","J","K","L","M","N","O","P","Q","R","S","T","U","V","W","X","Y","Z"}

Digit == {"0","1","2","3","4","5","6","7","8","9"}

\* The character class [a-zA-Z0-9_-]
IdChars == Lower \cup Upper \cup Digit \cup {"_", "-"}

WatchLit == <<"y","o","u","t","u","b","e",".","c","o","m","/","w","a","t","c","h","?","v","=">>

ShortLit == <<"y","o","u","t","u",".","b","e","/">>

EmbedLit == <<"y","o","u","t","u","b","e",".","c","o","m","/","e","m","b","e","d","/">>

\* The list without the embed pattern.
patterns_no_embed == << <<WatchLit, ShortLit>> >>

\* The two regular expressions, each as the literal alternatives that precede
\* the group ([a-zA-Z0-9_-]{11}).
patterns == << <<WatchLit, ShortLit>>, <<EmbedLit>> >>

\* The literal lit at position p of u, followed by VidLen characters of the class.
MatchAt(u, p, lit) ==
  /\ p + Len(lit) + VidLen - 1 <= Len(u)
  /\ SubSeq(u, p, p + Len(lit) - 1) = lit
  /\ \A i \in 0..(VidLen - 1) : u[p + Len(lit) + i] \in IdChars

\* re.search(pattern, url): the leftmost position where an alternative matches,
\* the alternatives tried in order there; the result is group(1) or None.
re_search(alts, u) ==
  LET hits == {p \in 1..Len(u) : \E a \in 1..Len(alts) : MatchAt(u, p, alts[a])}
  IN  IF hits = {} THEN None
      ELSE LET p == CHOOSE q \in hits : \A r \in hits : q <= r
               a == CHOOSE b \in 1..Len(alts) :
                      /\ MatchAt(u, p, alts[b])
                      /\ \A c \in 1..(b - 1) : ~MatchAt(u, p, alts[c])
           IN  Some(SubSeq(u, p + Len(alts[a]), p + Len(alts[a]) + VidLen - 1))

RECURSIVE first_match(_, _, _)
\* for pattern in patterns: match = re.search(pattern, url); if match: return group(1)
first_match(pats, k, u) ==
  IF k > Len(pats) THEN None
  ELSE IF re_search(pats[k], u) # None THEN re_search(pats[k], u)
  ELSE first_match(pats, k + 1, u)

_extract_video_id_from_url(u) == first_match(patterns, 1, u)

---------------------------------------------------------------------------
(* parse_rss_feed *)

\* published_parsed of a feed entry: the attribute is missing, is None, is a
\* time tuple datetime() rejects (TypeError, ValueError), or is a time tuple
\* of the hour t.
NoStamp == [st |-> "absent", t |-> 0]

NullStamp == [st |-> "none", t |-> 0]

BadStamp == [st |-> "invalid", t |-> 0]

Stamp(t) == [st |-> "valid", t |-> t]

\* One normalised record for one feed entry (lines 73-98).
parse_entry(e) ==
  [ title        |-> IF e.title # None THEN e.title[1] ELSE "Untitled",
    url          |-> IF e.link # None THEN e.link[1] ELSE <<>>,
    video_id     |-> IF e.yt_videoid # None THEN e.yt_videoid
                     ELSE IF e.link # None THEN _extract_video_id_from_url(e.link[1])
                     ELSE None,
    published_at |-> IF e.published_parsed.st \notin {"absent", "none"}
                     THEN (IF e.published_parsed.st = "valid"
                           THEN Some(e.published_parsed.t) ELSE None)
                     ELSE None,
    description  |-> IF e.summary # None THEN e.summary[1]
                     ELSE IF e.description # None THEN e.description[1] ELSE "",
    author       |-> IF e.author # None THEN e.author[1] ELSE "",
    link         |-> IF e.link # None THEN e.link[1] ELSE <<>> ]

\* The records of a document's entries, in the order of the feed.
parse_entries(entries) == [i \in 1..Len(entries) |-> parse_entry(entries[i])]

\* The normalisation without the test of line 67.
parse_rss_feed_ignore_bozo(doc) == Return(parse_entries(doc.entries))

\* feedparser.parse followed by the bozo test of line 67.
parse_rss_feed(doc) ==
  IF doc.bozo /\ doc.bozo_exception
  THEN Raise("ValueError", "Failed to parse RSS feed")
  ELSE Return(parse_entries(doc.entries))

---------------------------------------------------------------------------
(* filter_videos_by_time *)

\* published_at and isinstance(published_at, datetime): the records carry
\* None or a datetime, and a datetime is always true.
is_datetime(p) == p # None

\* The test without line 193: a record without a timestamp passes.
keep_video_no_none_check(v, cutoff) ==
  v.published_at = None \/ v.published_at[1] >= cutoff

\* The test with a strict comparison.
keep_video_strict(v, cutoff) ==
  /\ is_datetime(v.published_at)
  /\ v.published_at[1] > cutoff

keep_video(v, cutoff) ==
  /\ is_datetime(v.published_at)
  /\ v.published_at[1] >= cutoff

RECURSIVE filter_loop(_, _, _, _)
\* for video in videos: ... filtered.append(video)
filter_loop(videos, i, cutoff, filtered) ==
  IF i > Len(videos) THEN filtered
  ELSE filter_loop(videos, i + 1, cutoff,
                   IF keep_video(videos[i], cutoff)
                   THEN Append(filtered, videos[i]) ELSE filtered)

\* now is the reading of datetime.utcnow().
filter_videos_by_time(videos, h, now) ==
  IF videos = <<>> THEN <<>>
  ELSE filter_loop(videos, 1, now - h, <<>>)

---------------------------------------------------------------------------
(* Inputs: the arguments of the calls and the answers of the two services *)

MaxIdLen == 3

MaxEntries == 2

MaxLangs == 2

MaxChannels == 2

MaxDrift == 1

\* Readings of datetime.utcnow(), in hours.
Clock == 100..(100 + MaxDrift)

HoursSet == {0, 24}

\* Windows for filter_videos_by_time called on its own.
FilterHours == {-1, 0, 23, 24, 25}

\* Channel identifiers for the URL builder called on its own.
IdAlphabet == {"U", "C", "u", "x"}

IdInputs == SeqsUpTo(IdAlphabet, MaxIdLen)

\* Channel identifiers for fetch_multiple_channels.
ChannelIds == {<<"U","C","a">>, <<"U","C","b">>, <<"u","c","a">>}

\* Channel identifiers for fetch_channel_videos.
OneChannelIds == {<<"U","C","a">>, <<"u","c","a">>}

Vid1 == <<"d","Q","w","4","w","9","W","g","X","c","Q">>

Vid2 == <<"a","_","b","-","c","_","d","-","e","_","f">>

VidShort == <<"s","h","o","r","t">>

\* URLs for _extract_video_id_from_url: a host part, the shape of the path, the
\* token that follows and a tail.
UrlHosts == {<<>>, <<"h","t","t","p","s",":","/","/">>, <<"h","t","t","p","s",":","/","/","w","w","w",".">>}

UrlShapes == {WatchLit, ShortLit, EmbedLit, <<"y","o","u","t","u","b","e",".","c","o","m","/","v","/">>, <<"y","o","u","t","u","b","e","X","c","o","m","/","w","a","t","c","h","?","v","=">>, <<"y","o","u","t","u","b","e",".","c","o","m","/","w","a","t","c","h","?","l","i","s","t","=","x","&","v","=">>}

\* Ten characters of the class, twelve of them, and eleven characters of which
\* one is outside the class.
Vid10 == <<"d","Q","w","4","w","9","W","g","X","c">>

Vid12 == <<"d","Q","w","4","w","9","W","g","X","c","Q","8">>

VidBang == <<"d","Q","w","4","w","!","W","g","X","c","Q">>

UrlTokens == {Vid1, Vid10, Vid12, VidBang}

\* A tail that itself holds a link of the short form.
TailShortLink == <<"?","u","=">> \o ShortLit \o Vid2

UrlTails == {<<>>, <<"&","t","=","1">>, TailShortLink}

UrlParts == [host : UrlHosts, shape : UrlShapes, token : UrlTokens, tail : UrlTails]

UrlOf(p) == p.host \o p.shape \o p.token \o p.tail

WatchUrl == <<"h","t","t","p","s",":","/","/","w","w","w",".">> \o WatchLit \o Vid1

ShortUrl == <<"h","t","t","p","s",":","/","/">> \o ShortLit \o Vid2

OtherUrl == <<"h","t","t","p","s",":","/","/">> \o <<"e","x","a","m","p","l","e",".","c","o","m","/","x">>

\* Feed entries as feedparser gives them; a missing attribute is None.
FeedEntry(id, l, p, ti, su, de, au) ==
  [yt_videoid |-> id, link |-> l, published_parsed |-> p, title |-> ti,
   summary |-> su, description |-> de, author |-> au]

EntryA == FeedEntry(Some(Vid1), Some(WatchUrl), Stamp(77), Some("A"), Some("s"), None, Some("ch"))

EntryB == FeedEntry(None, Some(ShortUrl), Stamp(76), None, None, Some("d"), None)

EntryC == FeedEntry(Some(<<>>), None, Stamp(77), Some("C"), None, None, None)

EntryD == FeedEntry(Some(VidShort), Some(WatchUrl), Stamp(77), Some("D"), Some("s"), Some("d"), None)

EntryE == FeedEntry(None, Some(OtherUrl), Stamp(77), Some("E"), None, None, Some("ch"))

EntryF == FeedEntry(Some(Vid1), None, BadStamp, Some("F"), None, None, None)

EntryG == FeedEntry(None, None, NoStamp, Some("G"), None, None, None)

EntryH == FeedEntry(None, Some(WatchUrl), NullStamp, Some("H"), None, None, None)

Entries == {EntryA, EntryB, EntryC, EntryD, EntryE, EntryF, EntryG, EntryH}

\* What feedparser.parse returns: the entries of a well-formed document, or a
\* document with the bozo flag and its exception set.
FeedDoc(b, es) == [bozo |-> b, bozo_exception |-> b, entries |-> es]

FeedDocs ==
  {FeedDoc(FALSE, es) : es \in SeqsUpTo(Entries, MaxEntries)}
    \cup {FeedDoc(TRUE, es) : es \in SeqsUpTo(Entries, 1)}

\* The documents answered to fetch_multiple_channels.
ManyFeedDocs ==
  { FeedDoc(FALSE, <<>>), FeedDoc(FALSE, <<EntryA>>), FeedDoc(FALSE, <<EntryE>>),
    FeedDoc(FALSE, <<EntryF, EntryB>>), FeedDoc(TRUE, <<>>), FeedDoc(TRUE, <<EntryA>>) }

NoFeed == FeedDoc(FALSE, <<>>)

\* Records for filter_videos_by_time called on its own.
VideoLists == {parse_entries(es) : es \in SeqsUpTo(Entries, MaxEntries)}

\* Language lists for get_video_transcript called on its own.
LanguageLists == SeqsUpTo({"en", "de"}, MaxLangs)

\* Language lists for the two fetch functions: the default and two others.
FetchLanguageLists == {<<"en">>, <<>>, <<"de", "en">>}

\* Identifiers for get_video_transcript called on its own.
VideoIdInputs == {<<>>, VidShort, Vid1, Vid10, Vid12}

\* What the fetch of a track returns: items with their text.
SegLists ==
  { <<>>,
    <<[text |-> <<"h","i">>], [text |-> <<"y","o">>]>>,
    <<[text |-> <<"y","o">>], [text |-> <<>>], [text |-> <<"h","i">>]>> }

---------------------------------------------------------------------------
(* Exceptions and handlers *)

\* The four names imported from the captions library (lines 11-16).
LibraryErrors == {"NoTranscriptFound", "TranscriptsDisabled", "VideoUnavailable", "TooManyRequests"}

\* What a request to the captions service can raise; "OtherError" is any
\* other subclass of Exception.
ErrorKinds == LibraryErrors \cup {"OtherError"}

\* isinstance(e, cls) for a raised e.  After the ImportError fallback of lines
\* 17-23 the four names all denote Exception.
isinstance(e, cls) ==
  \/ cls = "Exception"
  \/ e = cls
  \/ (genericErrors /\ cls \in LibraryErrors)

\* Lines 142, 150, 158.
inner_handlers == <<"NoTranscriptFound", "TranscriptsDisabled">>

\* Lines 163-171 without the blanket clause of line 169.
outer_handlers_no_blanket == <<"VideoUnavailable", "TooManyRequests">>

\* Lines 163, 166, 169.
outer_handlers == <<"VideoUnavailable", "TooManyRequests", "Exception">>

\* No handler at all around the call of fetch_channel_videos.
fm_handlers_none == <<>>

\* Line 263.
fm_handlers == <<"Exception">>

catches(handlers, e) == \E k \in 1..Len(handlers) : isinstance(e, handlers[k])

---------------------------------------------------------------------------
(* get_video_transcript *)

RECURSIVE join(_, _)
\* sep.join(items)
join(sep, items) ==
  IF items = <<>> THEN <<>>
  ELSE IF Len(items) = 1 THEN items[1]
  ELSE items[1] \o sep \o join(sep, Tail(items))

\* ' '.join([item['text'] for item in transcript_data])
transcript_text(data) == join(<<" ">>, [i \in 1..Len(data) |-> data[i].text])

FindSource(m, l) == [method |-> m, lang |-> l]

\* The order with the two fallback tracks swapped.
sources_generated_first(langs) ==
  [i \in 1..Len(langs) |-> FindSource("find_transcript", langs[i])]
    \o << FindSource("find_generated_transcript", "en"),
          FindSource("find_manually_created_transcript", "en") >>

\* The lookups in the order the code makes them: the for loop of line 136,
\* then line 147, then line 155.
sources(langs) ==
  [i \in 1..Len(langs) |-> FindSource("find_transcript", langs[i])]
    \o << FindSource("find_manually_created_transcript", "en"),
          FindSource("find_generated_transcript", "en") >>

\* The guard of line 129 without the length test.
rejects_early_empty_only(vid) == vid = <<>>

\* not video_id or len(video_id) != 11
rejects_early(vid) == vid = <<>> \/ Len(vid) # VidLen

Request(r, s) == [req |-> r, method |-> s.method, lang |-> s.lang]

ListRequest == [req |-> "list_transcripts", method |-> "", lang |-> ""]

Answer(e, d) == [err |-> e, data |-> d]

NoAnswer == Answer("", <<>>)

\* Where control goes when get_video_transcript ends.
t_exit == IF entry = "get_video_transcript" THEN "done" ELSE "fo_attach"

\* An exception e raised inside the outer try and not handled by an inner one.
t_unwind(e) == IF catches(outer_handlers, e) THEN Return(None) ELSE Raise(e, "")

\* Lines 129-130.
T_Check ==
  /\ pc = "t_check"
  /\ IF rejects_early(video_id)
     THEN /\ t_ret' = Return(None)
          /\ pc' = t_exit
     ELSE /\ t_ret' = t_ret
          /\ pc' = "t_list"
  /\ UNCHANGED <<utcnow, t_calls, fm_trace, entry, ret, genericErrors, channel_ids, hours, get_transcripts,
                 languages, idx, results, channel_id, rss_url, feed, feed_requests,
                 all_videos, cutoff_time, recent_videos, vi, fo_ret, list_requests,
                 url, video_id, src, t_log, t_last>>

\* Line 133: the request for the list of tracks.
T_List ==
  /\ pc = "t_list"
  /\ \E e \in {""} \cup ErrorKinds :
       /\ t_last' = Answer(e, <<>>)
       /\ IF e = ""
          THEN /\ pc' = "t_find"
               /\ src' = 1
               /\ t_ret' = t_ret
          ELSE /\ pc' = t_exit
               /\ src' = src
               /\ t_ret' = t_unwind(e)
  /\ t_log' = Append(t_log, ListRequest)
  /\ list_requests' = Append(list_requests, [pos |-> vi, id |-> video_id])
  /\ UNCHANGED <<utcnow, t_calls, fm_trace, entry, ret, genericErrors, channel_ids, hours, get_transcripts,
                 languages, idx, results, channel_id, rss_url, feed, feed_requests,
                 all_videos, cutoff_time, recent_videos, vi, fo_ret, url, video_id>>

\* An exception e raised by the lookup or the fetch of source number src:
\* continue / pass on an inner handler (then the next source, or line 161
\* after the last), the outer handlers otherwise.
t_on_error(e) ==
  IF catches(inner_handlers, e)
  THEN IF src < Len(sources(languages))
       THEN /\ pc' = "t_find"
            /\ src' = src + 1
            /\ t_ret' = t_ret
       ELSE /\ pc' = t_exit
            /\ src' = src
            /\ t_ret' = Return(None)
  ELSE /\ pc' = t_exit
       /\ src' = src
       /\ t_ret' = t_unwind(e)

\* Lines 138, 147, 155: the lookup of the track of the current source.
T_Find ==
  /\ pc = "t_find"
  /\ \E e \in {""} \cup ErrorKinds :
       /\ t_last' = Answer(e, <<>>)
       /\ IF e = ""
          THEN /\ pc' = "t_fetch"
               /\ src' = src
               /\ t_ret' = t_ret
          ELSE t_on_error(e)
  /\ t_log' = Append(t_log, Request("find", sources(languages)[src]))
  /\ UNCHANGED <<utcnow, t_calls, fm_trace, entry, ret, genericErrors, channel_ids, hours, get_transcripts,
                 languages, idx, results, channel_id, rss_url, feed, feed_requests,
                 all_videos, cutoff_time, recent_videos, vi, fo_ret, list_requests,
                 url, video_id>>

\* Lines 139-141, 148-149, 156-157: the fetch of the located track and the
\* return of its text.
T_Fetch ==
  /\ pc = "t_fetch"
  /\ \E a \in {Answer("", d) : d \in SegLists} \cup {Answer(e, <<>>) : e \in ErrorKinds} :
       /\ t_last' = a
       /\ IF a.err = ""
          THEN /\ pc' = t_exit
               /\ src' = src
               /\ t_ret' = Return(Some(transcript_text(a.data)))
          ELSE t_on_error(a.err)
  /\ t_log' = Append(t_log, Request("fetch", sources(languages)[src]))
  /\ UNCHANGED <<utcnow, t_calls, fm_trace, entry, ret, genericErrors, channel_ids, hours, get_transcripts,
                 languages, idx, results, channel_id, rss_url, feed, feed_requests,
                 all_videos, cutoff_time, recent_videos, vi, fo_ret, list_requests,
                 url, video_id>>

---------------------------------------------------------------------------
(* fetch_channel_videos *)

\* Where control goes when fetch_channel_videos ends.
fo_exit == IF entry = "fetch_multiple_channels" THEN "fm_store" ELSE "done"

\* if video_id:
truthy_id(v) == v # None /\ v[1] # <<>>

\* The assignment made only for a transcript that was found.
set_transcript_skip_none(v, x) == IF x = None THEN v ELSE [transcript |-> x] @@ v

\* video['transcript'] = x
set_transcript(v, x) == [transcript |-> x] @@ v

\* Line 218.
FO_BuildUrl ==
  /\ pc = "fo_url"
  /\ LET r == get_channel_rss_url(channel_id)
     IN  IF r.kind = "raise"
         THEN /\ fo_ret' = r
              /\ rss_url' = rss_url
              /\ pc' = fo_exit
         ELSE /\ fo_ret' = fo_ret
              /\ rss_url' = r.val
              /\ pc' = "fo_parse"
  /\ UNCHANGED <<utcnow, t_calls, fm_trace, entry, ret, genericErrors, channel_ids, hours, get_transcripts,
                 languages, idx, results, channel_id, feed, feed_requests,
                 all_videos, cutoff_time, recent_videos, vi, list_requests,
                 url, video_id, src, t_log, t_last, t_ret>>

\* Line 219: the feed request and the normalisation of what it returned.
FO_Parse ==
  /\ pc = "fo_parse"
  /\ \E doc \in (IF entry = "fetch_multiple_channels" THEN ManyFeedDocs ELSE FeedDocs) :
       /\ feed' = doc
       /\ LET r == parse_rss_feed(doc)
          IN  IF r.kind = "raise"
              THEN /\ fo_ret' = r
                   /\ all_videos' = all_videos
                   /\ pc' = fo_exit
              ELSE /\ fo_ret' = fo_ret
                   /\ all_videos' = r.val
                   /\ pc' = "filter"
  /\ feed_requests' = Append(feed_requests, rss_url)
  /\ UNCHANGED <<utcnow, t_calls, fm_trace, entry, ret, genericErrors, channel_ids, hours, get_transcripts,
                 languages, idx, results, channel_id, rss_url,
                 cutoff_time, recent_videos, vi, list_requests,
                 url, video_id, src, t_log, t_last, t_ret>>

\* Line 220, and filter_videos_by_time called on its own.  The clock is read
\* (line 188) only when the list is not empty.
Filter ==
  /\ pc = "filter"
  /\ \E now \in Clock :
       /\ recent_videos' = filter_videos_by_time(all_videos, hours, now)
       /\ cutoff_time' = IF all_videos = <<>> THEN cutoff_time ELSE Some(now - hours)
       /\ utcnow' = IF all_videos = <<>> THEN utcnow ELSE Some(now)
  /\ vi' = 1
  /\ pc' = IF entry = "filter_videos_by_time" THEN "done"
           ELSE IF get_transcripts THEN "fo_loop" ELSE "fo_return"
  /\ UNCHANGED <<t_calls, fm_trace, entry, ret, genericErrors, channel_ids, hours, get_transcripts,
                 languages, idx, results, channel_id, rss_url, feed, feed_requests,
                 all_videos, fo_ret, list_requests,
                 url, video_id, src, t_log, t_last, t_ret>>

\* Lines 223-229: one turn of the loop up to the call of get_video_transcript,
\* or all of it for a record without identifier.
FO_Loop ==
  /\ pc = "fo_loop"
  /\ IF vi > Len(recent_videos)
     THEN /\ pc' = "fo_return"
          /\ UNCHANGED <<recent_videos, vi, video_id>>
     ELSE IF truthy_id(recent_videos[vi].video_id)
     THEN /\ pc' = "t_check"
          /\ video_id' = recent_videos[vi].video_id[1]
          /\ UNCHANGED <<recent_videos, vi>>
     ELSE /\ pc' = "fo_loop"
          /\ recent_videos' = [recent_videos EXCEPT ![vi] = set_transcript(@, None)]
          /\ vi' = vi + 1
          /\ video_id' = video_id
  /\ UNCHANGED <<utcnow, t_calls, fm_trace, entry, ret, genericErrors, channel_ids, hours, get_transcripts,
                 languages, idx, results, channel_id, rss_url, feed, feed_requests,
                 all_videos, cutoff_time, fo_ret, list_requests,
                 url, src, t_log, t_last, t_ret>>

\* Lines 226-227: get_video_transcript has ended; its value is stored in the
\* record, an exception it raised leaves fetch_channel_videos.
FO_Attach ==
  /\ pc = "fo_attach"
  /\ IF t_ret.kind = "raise"
     THEN /\ fo_ret' = t_ret
          /\ pc' = fo_exit
          /\ UNCHANGED <<recent_videos, vi>>
     ELSE /\ fo_ret' = fo_ret
          /\ pc' = "fo_loop"
          /\ recent_videos' = [recent_videos EXCEPT ![vi] = set_transcript(@, t_ret.val)]
          /\ vi' = vi + 1
  /\ t_calls' = Append(t_calls, [pos |-> vi, id |-> video_id, out |-> t_ret])
  /\ video_id' = <<>>
  /\ src' = 0
  /\ t_log' = <<>>
  /\ t_last' = NoAnswer
  /\ t_ret' = NoOutcome
  /\ UNCHANGED <<utcnow, fm_trace, entry, ret, genericErrors, channel_ids, hours, get_transcripts,
                 languages, idx, results, channel_id, rss_url, feed, feed_requests,
                 all_videos, cutoff_time, list_requests, url>>

\* Line 231.
FO_Return ==
  /\ pc = "fo_return"
  /\ fo_ret' = Return(recent_videos)
  /\ pc' = fo_exit
  /\ UNCHANGED <<utcnow, t_calls, fm_trace, entry, ret, genericErrors, channel_ids, hours, get_transcripts,
                 languages, idx, results, channel_id, rss_url, feed, feed_requests,
                 all_videos, cutoff_time, recent_videos, vi, list_requests,
                 url, video_id, src, t_log, t_last, t_ret>>

---------------------------------------------------------------------------
(* fetch_multiple_channels *)

\* results[k] = v
dict_set(d, k, v) == [x \in (DOMAIN d) \cup {k} |-> IF x = k THEN v ELSE d[x]]

\* Lines 254-261: the next channel of the list, or line 267 after the last.
FM_Loop ==
  /\ pc = "fm_loop"
  /\ IF idx > Len(channel_ids)
     THEN /\ pc' = "done"
          /\ ret' = Return(results)
          /\ UNCHANGED <<channel_id, fo_ret, feed, feed_requests, all_videos,
                         cutoff_time, recent_videos, vi, list_requests, rss_url,
                         utcnow, t_calls>>
     ELSE /\ pc' = "fo_url"
          /\ ret' = ret
          /\ channel_id' = channel_ids[idx]
          /\ fo_ret' = NoOutcome
          /\ rss_url' = <<>>
          /\ feed' = NoFeed
          /\ feed_requests' = <<>>
          /\ all_videos' = <<>>
          /\ cutoff_time' = None
          /\ recent_videos' = <<>>
          /\ vi' = 0
          /\ list_requests' = <<>>
          /\ utcnow' = None
          /\ t_calls' = <<>>
  /\ UNCHANGED <<fm_trace, entry, genericErrors, channel_ids, hours, get_transcripts,
                 languages, idx, results, url, video_id, src, t_log, t_last, t_ret>>

\* Lines 262-265: fetch_channel_videos has ended.
FM_Store ==
  /\ pc = "fm_store"
  /\ fm_trace' = Append(fm_trace, [id |-> channel_id, out |-> fo_ret,
                                   feed_failed |-> feed.bozo /\ feed.bozo_exception])
  /\ IF fo_ret.kind = "return"
     THEN /\ results' = dict_set(results, channel_id, fo_ret.val)
          /\ idx' = idx + 1
          /\ pc' = "fm_loop"
          /\ ret' = ret
     ELSE IF catches(fm_handlers, fo_ret.exc)
     THEN /\ results' = dict_set(results, channel_id, <<>>)
          /\ idx' = idx + 1
          /\ pc' = "fm_loop"
          /\ ret' = ret
     ELSE /\ results' = results
          /\ idx' = idx
          /\ pc' = "done"
          /\ ret' = fo_ret
  /\ UNCHANGED <<utcnow, t_calls, entry, genericErrors, channel_ids, hours, get_transcripts,
                 languages, channel_id, rss_url, feed, feed_requests,
                 all_videos, cutoff_time, recent_videos, vi, fo_ret, list_requests,
                 url, video_id, src, t_log, t_last, t_ret>>

---------------------------------------------------------------------------
(* The pure functions called on their own *)

UrlCall ==
  /\ pc = "url_call"
  /\ ret' = get_channel_rss_url(channel_id)
  /\ pc' = "done"
  /\ UNCHANGED <<utcnow, t_calls, fm_trace, entry, genericErrors, channel_ids, hours, get_transcripts,
                 languages, idx, results, channel_id, rss_url, feed, feed_requests,
                 all_videos, cutoff_time, recent_videos, vi, fo_ret, list_requests,
                 url, video_id, src, t_log, t_last, t_ret>>

ExtractCall ==
  /\ pc = "extract_call"
  /\ ret' = Return(_extract_video_id_from_url(url))
  /\ pc' = "done"
  /\ UNCHANGED <<utcnow, t_calls, fm_trace, entry, genericErrors, channel_ids, hours, get_transcripts,
                 languages, idx, results, channel_id, rss_url, feed, feed_requests,
                 all_videos, cutoff_time, recent_videos, vi, fo_ret, list_requests,
                 url, video_id, src, t_log, t_last, t_ret>>

---------------------------------------------------------------------------
(* Specifications *)

\* Nothing of fetch_multiple_channels is set.
FmBlank == channel_ids = <<>> /\ idx = 1 /\ results = <<>>

\* No local of fetch_channel_videos is set.
FoBlank ==
  /\ rss_url = <<>>
  /\ feed = NoFeed
  /\ feed_requests = <<>>
  /\ cutoff_time = None
  /\ recent_videos = <<>>
  /\ vi = 0
  /\ fo_ret = NoOutcome
  /\ list_requests = <<>>

\* No local of get_video_transcript is set.
TBlank == src = 0 /\ t_log = <<>> /\ t_last = NoAnswer /\ t_ret = NoOutcome

\* The history variables are empty.
HistoryBlank == utcnow = None /\ t_calls = <<>> /\ fm_trace = <<>>

\* fetch_channel_videos(channel_id, hours, get_transcripts, languages)
InitOne ==
  /\ entry = "fetch_channel_videos"
  /\ pc = "fo_url"
  /\ ret = NoOutcome
  /\ genericErrors \in BOOLEAN
  /\ channel_id \in OneChannelIds
  /\ hours \in HoursSet
  /\ get_transcripts \in BOOLEAN
  /\ languages \in FetchLanguageLists
  /\ all_videos = <<>>
  /\ url = <<>>
  /\ video_id = <<>>
  /\ FmBlank /\ FoBlank /\ TBlank /\ HistoryBlank

\* filter_videos_by_time(videos, hours)
InitFilter ==
  /\ entry = "filter_videos_by_time"
  /\ pc = "filter"
  /\ ret = NoOutcome
  /\ genericErrors = FALSE
  /\ channel_id = <<>>
  /\ hours \in FilterHours
  /\ get_transcripts = FALSE
  /\ languages = <<"en">>
  /\ all_videos \in VideoLists
  /\ url = <<>>
  /\ video_id = <<>>
  /\ FmBlank /\ FoBlank /\ TBlank /\ HistoryBlank

\* get_video_transcript(video_id, languages)
InitTranscript ==
  /\ entry = "get_video_transcript"
  /\ pc = "t_check"
  /\ ret = NoOutcome
  /\ genericErrors \in BOOLEAN
  /\ channel_id = <<>>
  /\ hours = 24
  /\ get_transcripts = FALSE
  /\ languages \in LanguageLists
  /\ all_videos = <<>>
  /\ url = <<>>
  /\ video_id \in VideoIdInputs
  /\ FmBlank /\ FoBlank /\ TBlank /\ HistoryBlank

\* fetch_multiple_channels(channel_ids, get_transcripts=...), hours and languages
\* left at their defaults.
InitMany ==
  /\ entry = "fetch_multiple_channels"
  /\ pc = "fm_loop"
  /\ ret = NoOutcome
  /\ genericErrors \in BOOLEAN
  /\ channel_ids \in SeqsUpTo(ChannelIds, MaxChannels)
  /\ idx = 1
  /\ results = <<>>
  /\ channel_id = <<>>
  /\ hours = 24
  /\ get_transcripts \in BOOLEAN
  /\ languages = <<"en">>
  /\ all_videos = <<>>
  /\ url = <<>>
  /\ video_id = <<>>
  /\ FoBlank /\ TBlank /\ HistoryBlank

\* get_channel_rss_url(channel_id)
InitUrl ==
  /\ entry = "get_channel_rss_url"
  /\ pc = "url_call"
  /\ ret = NoOutcome
  /\ genericErrors = FALSE
  /\ channel_id \in IdInputs
  /\ hours = 24
  /\ get_transcripts = FALSE
  /\ languages = <<"en">>
  /\ all_videos = <<>>
  /\ url = <<>>
  /\ video_id = <<>>
  /\ FmBlank /\ FoBlank /\ TBlank /\ HistoryBlank

\* _extract_video_id_from_url(url)
InitExtract ==
  /\ entry = "_extract_video_id_from_url"
  /\ pc = "extract_call"
  /\ ret = NoOutcome
  /\ genericErrors = FALSE
  /\ channel_id = <<>>
  /\ hours = 24
  /\ get_transcripts = FALSE
  /\ languages = <<"en">>
  /\ all_videos = <<>>
  /\ url \in {UrlOf(p) : p \in UrlParts}
  /\ video_id = <<>>
  /\ FmBlank /\ FoBlank /\ TBlank /\ HistoryBlank

Init == InitOne \/ InitFilter

NextTranscript == T_Check \/ T_List \/ T_Find \/ T_Fetch

Next ==
  \/ FO_BuildUrl \/ FO_Parse \/ Filter \/ FO_Loop \/ FO_Attach \/ FO_Return
  \/ NextTranscript

\* One call of fetch_channel_videos or of filter_videos_by_time.
Spec == Init /\ [][Next]_vars

\* One call of get_video_transcript.
SpecTranscript == InitTranscript /\ [][NextTranscript]_vars

NextMany == FM_Loop \/ FM_Store \/ Next

\* One call of fetch_multiple_channels.
SpecMany == InitMany /\ [][NextMany]_vars

\* One call of get_channel_rss_url.
SpecUrl == InitUrl /\ [][UrlCall]_vars

\* One call of _extract_video_id_from_url.
SpecExtract == InitExtract /\ [][ExtractCall]_vars

---------------------------------------------------------------------------
(* Claims about get_channel_rss_url *)

\* C3: get_channel_rss_url fails with the validation error for every
\* identifier that does not begin with the two letters U, C, and for every
\* identifier that does begin with them returns the fixed feed URL prefix
\* followed by the identifier, unchanged; there is no other outcome.
C3_UrlBuilder ==
  (entry = "get_channel_rss_url" /\ pc = "done") =>
    LET has_prefix == Len(channel_id) >= 2 /\ channel_id[1] = "U" /\ channel_id[2] = "C"
        n == Len(FeedUrlPrefix)
    IN  /\ ret.kind \in {"raise", "return"}
        /\ ~has_prefix => (ret.kind = "raise" /\ ret.exc = "ValueError"
                           /\ ret.msg = "Invalid channel ID format")
        /\ has_prefix => (/\ ret.kind = "return"
                          /\ Len(ret.val) = n + Len(channel_id)
                          /\ SubSeq(ret.val, 1, n) = FeedUrlPrefix
                          /\ SubSeq(ret.val, n + 1, Len(ret.val)) = channel_id)

\* An identifier whose first letter is right and whose second is not was rejected.
C3_Witness ==
  /\ entry = "get_channel_rss_url" /\ pc = "done"
  /\ Len(channel_id) >= 2 /\ channel_id[1] = "U" /\ channel_id[2] = "u"
  /\ ret.kind = "raise"

---------------------------------------------------------------------------
(* Claims about _extract_video_id_from_url *)

\* The token of a URL part is taken when it begins with VidLen characters of the class.
TokenYields(p) == p.token \in {Vid1, Vid12}

\* The URL is of the watch?v= form or of the youtu.be/ form.
OfTheTwoForms(p) ==
  \/ (p.shape \in {WatchLit, ShortLit} /\ TokenYields(p))
  \/ p.tail = TailShortLink

\* The URL is of the embed form.
OfTheEmbedForm(p) == p.shape = EmbedLit /\ TokenYields(p)

\* The token of a URL of one of the two forms: that of the leftmost link.
TokenOfTheTwoForms(p) ==
  IF p.shape \in {WatchLit, ShortLit} /\ TokenYields(p)
  THEN SubSeq(p.token, 1, 11)
  ELSE Vid2

\* C7 as stated: a URL of the watch?v= form or of the youtu.be/ form yields
\* its 11-character token, and a URL matching neither of these two patterns
\* yields no identifier.
C7_AsStated ==
  (entry = "_extract_video_id_from_url" /\ pc = "done") =>
    \A p \in UrlParts : url = UrlOf(p) =>
      /\ OfTheTwoForms(p) => ret.val = Some(TokenOfTheTwoForms(p))
      /\ ~OfTheTwoForms(p) => ret.val = None

\* C7 amended: a URL of the watch?v= form or of the youtu.be/ form yields its
\* 11-character token; a URL of neither of these forms but of the
\* youtube.com/embed/ form yields the 11-character token after embed/; a URL
\* matching none of the three patterns yields no identifier.
C7_Extract ==
  (entry = "_extract_video_id_from_url" /\ pc = "done") =>
    \A p \in UrlParts : url = UrlOf(p) =>
      /\ OfTheTwoForms(p) => ret.val = Some(TokenOfTheTwoForms(p))
      /\ (~OfTheTwoForms(p) /\ OfTheEmbedForm(p)) => ret.val = Some(SubSeq(p.token, 1, 11))
      /\ (~OfTheTwoForms(p) /\ ~OfTheEmbedForm(p)) => ret.val = None

\* An embed URL was given and its token returned.
C7_Witness ==
  /\ entry = "_extract_video_id_from_url" /\ pc = "done"
  /\ \E p \in UrlParts : url = UrlOf(p) /\ p.shape = EmbedLit /\ p.tail = <<>>
                         /\ p.token = Vid12
  /\ ret.val = Some(Vid1)

---------------------------------------------------------------------------
(* Claims about get_video_transcript *)

Last(q) == q[Len(q)]

\* C5: get_video_transcript returns nothing for every identifier that is
\* empty or not exactly 11 characters long, and then no request of any kind
\* is made to the captions service.
C5_EarlyReject ==
  (entry = "get_video_transcript" /\ Len(video_id) # 11) =>
    /\ t_log = <<>>
    /\ list_requests = <<>>
    /\ pc \in {"t_check", "done"}
    /\ pc = "done" => (t_ret.kind = "return" /\ t_ret.val = None)

\* An identifier of ten characters was rejected.
C5_Witness ==
  /\ entry = "get_video_transcript" /\ pc = "done"
  /\ Len(video_id) = 10
  /\ t_ret.kind = "return" /\ t_ret.val = None /\ t_log = <<>>

\* The lookups among the requests, in the order they were made.
FindsOf(log) == SelectSeq(log, LAMBDA r : r.req = "find")

\* The k-th source of the fixed order: the languages of the list, then the
\* manually authored English track, then the generated English track.
ExpectedSource(k) ==
  IF k <= Len(languages) THEN [method |-> "find_transcript", lang |-> languages[k]]
  ELSE IF k = Len(languages) + 1
  THEN [method |-> "find_manually_created_transcript", lang |-> "en"]
  ELSE [method |-> "find_generated_transcript", lang |-> "en"]

RECURSIVE Offset(_, _)
\* Where item i begins in the joined text, less one.
Offset(items, i) == IF i = 1 THEN 0 ELSE Offset(items, i - 1) + Len(items[i - 1]) + 1

\* text is the items in their order, one space between neighbours.
JoinedWithSpaces(text, items) ==
  IF items = <<>> THEN text = <<>>
  ELSE /\ Len(text) = Offset(items, Len(items) + 1) - 1
       /\ \A i \in 1..Len(items) :
            SubSeq(text, Offset(items, i) + 1, Offset(items, i) + Len(items[i])) = items[i]
       /\ \A i \in 1..(Len(items) - 1) : text[Offset(items, i + 1)] = " "

---------------------------------------------------------------------------
(* Claims about filter_videos_by_time and fetch_channel_videos *)

\* The positions of the records that carry a timestamp not before the cutoff.
Kept(videos, cutoff) ==
  {i \in 1..Len(videos) :
     videos[i].published_at # None /\ videos[i].published_at[1] >= cutoff}

\* The j-th smallest member of K.
NthOf(K, j) == CHOOSE k \in K : Cardinality({m \in K : m <= k}) = j

\* The record as it was before a transcript was attached.
WithoutTranscript(v) == [k \in (DOMAIN v) \ {"transcript"} |-> v[k]]

HasPrefixUC(cid) == Len(cid) >= 2 /\ cid[1] = "U" /\ cid[2] = "C"

\* C2: for every sequence of records and every window, filter_videos_by_time
\* returns exactly the subsequence of the records whose published_at is
\* present and >= cutoff, the cutoff being the clock reading minus the window,
\* in their original relative order; a record without timestamp is dropped
\* whatever the window, and the output of fetch_channel_videos keeps the order
\* of the feed.
C2_TimeFilter ==
  /\ vi > 0 =>
       IF all_videos = <<>> THEN recent_videos = <<>>
       ELSE /\ utcnow # None
            /\ LET K == Kept(all_videos, utcnow[1] - hours)
               IN  /\ Len(recent_videos) = Cardinality(K)
                   /\ \A j \in 1..Len(recent_videos) :
                        WithoutTranscript(recent_videos[j]) = all_videos[NthOf(K, j)]
  /\ (entry = "fetch_channel_videos" /\ pc = "done" /\ fo_ret.kind = "return") =>
       /\ fo_ret.val = recent_videos
       /\ Len(all_videos) = Len(feed.entries)
       /\ \A i \in 1..Len(all_videos) :
            all_videos[i].title = IF feed.entries[i].title = None THEN "Untitled"
                                  ELSE feed.entries[i].title[1]

\* The filter, called on its own with a record without timestamp followed by a
\* record stamped exactly at the cutoff, returned the second one alone.
C2_Witness ==
  /\ entry = "filter_videos_by_time" /\ pc = "done"
  /\ Len(all_videos) = 2
  /\ all_videos[1].published_at = None
  /\ all_videos[2].published_at = Some(utcnow[1] - hours)
  /\ recent_videos = <<all_videos[2]>>

\* C4: fetch_channel_videos hands failures to its caller instead of returning
\* a list: an identifier with the wrong prefix raises the validation failure
\* before any feed request is made, a malformed feed document raises the parse
\* failure before any filtering or caption lookup, and a list is returned only
\* when both stages succeeded.
C4_Propagates ==
  entry = "fetch_channel_videos" =>
    /\ (~HasPrefixUC(channel_id) /\ pc # "fo_url") =>
         /\ pc = "done"
         /\ fo_ret.kind = "raise" /\ fo_ret.exc = "ValueError"
         /\ fo_ret.msg = "Invalid channel ID format"
         /\ feed_requests = <<>>
    /\ (feed_requests # <<>> /\ feed.bozo /\ feed.bozo_exception) =>
         /\ pc = "done"
         /\ fo_ret.kind = "raise" /\ fo_ret.exc = "ValueError"
         /\ fo_ret.msg = "Failed to parse RSS feed"
         /\ vi = 0 /\ utcnow = None /\ recent_videos = <<>>
         /\ list_requests = <<>> /\ t_calls = <<>> /\ t_log = <<>>
    /\ fo_ret.kind = "return" =>
         /\ pc = "done"
         /\ HasPrefixUC(channel_id)
         /\ feed_requests = <<FeedUrlPrefix \o channel_id>>
         /\ ~(feed.bozo /\ feed.bozo_exception)
    /\ pc = "done" => fo_ret.kind \in {"return", "raise"}

\* A malformed document that still held an entry made the call raise.
C4_Witness ==
  /\ entry = "fetch_channel_videos" /\ pc = "done"
  /\ feed.bozo /\ Len(feed.entries) = 1
  /\ Len(feed_requests) = 1
  /\ fo_ret.kind = "raise"

\* C6: get_video_transcript never raises: whatever the captions service
\* reports at any step (no track, captions disabled, video unavailable, rate
\* limit or any other error, from the request for the list of tracks, from a
\* lookup or from a fetch), the call ends by returning caption text or an
\* absent transcript, so that a caption failure never aborts
\* fetch_channel_videos.
C6_NeverRaises ==
  entry = "fetch_channel_videos" =>
    /\ t_ret.kind # "raise"
    /\ pc = "fo_attach" =>
         /\ t_ret.kind = "return"
         /\ t_ret.val = None \/ Len(t_ret.val) = 1
         /\ t_last.err \in {"VideoUnavailable", "TooManyRequests", "OtherError"} =>
              t_ret.val = None
    /\ \A k \in 1..Len(t_calls) : t_calls[k].out.kind = "return"
    /\ fo_ret.kind = "raise" => (list_requests = <<>> /\ t_calls = <<>> /\ t_log = <<>>)
    /\ (pc = "done" /\ list_requests # <<>>) => fo_ret.kind = "return"
    /\ (pc \in {"t_check", "t_list", "t_find", "t_fetch", "fo_attach"}) => ENABLED Next

\* The fetch of a located track failed with an error of no particular kind,
\* and the call returned an absent transcript.
C6_Witness ==
  /\ entry = "fetch_channel_videos" /\ pc = "fo_attach"
  /\ ~genericErrors
  /\ t_last.err = "OtherError"
  /\ Last(t_log).req = "fetch"
  /\ t_ret.kind = "return" /\ t_ret.val = None

\* C8: a record returned by fetch_channel_videos carries a transcript field if
\* and only if transcripts were requested: when they were, every returned
\* record has the field, absent (None) for a record without video identifier
\* and otherwise the result of get_video_transcript for that identifier; when
\* they were not, no returned record has it.
C8_TranscriptField ==
  (entry = "fetch_channel_videos" /\ pc = "done" /\ fo_ret.kind = "return") =>
    \A i \in 1..Len(fo_ret.val) :
      LET v == fo_ret.val[i]
      IN  /\ ("transcript" \in DOMAIN v) <=> get_transcripts
          /\ get_transcripts =>
               IF v.video_id = None \/ v.video_id = Some(<<>>)
               THEN v.transcript = None /\ \A k \in 1..Len(t_calls) : t_calls[k].pos # i
               ELSE \E k \in 1..Len(t_calls) :
                      /\ t_calls[k].pos = i
                      /\ t_calls[k].id = v.video_id[1]
                      /\ t_calls[k].out.kind = "return"
                      /\ t_calls[k].out.val = v.transcript

\* Two records were returned with transcripts requested: one without
\* identifier, whose transcript is absent, and one with a caption text.
C8_Witness ==
  /\ entry = "fetch_channel_videos" /\ pc = "done" /\ fo_ret.kind = "return"
  /\ get_transcripts
  /\ Len(fo_ret.val) = 2
  /\ fo_ret.val[1].video_id = None /\ fo_ret.val[1].transcript = None
  /\ fo_ret.val[2].transcript = Some(<<"h","i"," ","y","o">>)

\* C10: during one call of fetch_channel_videos the captions service is
\* contacted only for records of the returned, time-filtered list that carry
\* an identifier of 11 characters; its list of tracks is requested at most
\* once for such a record; it is never contacted for a record the filter
\* dropped, and not at all when transcripts were not requested.
C10_ServiceContacts ==
  entry = "fetch_channel_videos" =>
    /\ \A k \in 1..Len(list_requests) :
         LET r == list_requests[k]
         IN  /\ r.pos \in 1..Len(recent_videos)
             /\ recent_videos[r.pos].video_id = Some(r.id)
             /\ Len(r.id) = 11
             /\ recent_videos[r.pos].published_at # None
             /\ recent_videos[r.pos].published_at[1] >= utcnow[1] - hours
             /\ \A l \in 1..(k - 1) : list_requests[l].pos < r.pos
    /\ ~get_transcripts => (list_requests = <<>> /\ t_log = <<>>)
    /\ t_log # <<>> =>
         /\ list_requests # <<>>
         /\ Last(list_requests).pos = vi
         /\ \A i \in 1..Len(t_log) : (t_log[i].req = "list_transcripts") <=> (i = 1)
    /\ (pc = "done" /\ fo_ret.kind = "return") =>
         \A k \in 1..Len(list_requests) :
           fo_ret.val[list_requests[k].pos].video_id = Some(list_requests[k].id)

\* Of two feed entries with an identifier of 11 characters the filter dropped
\* the first, and the service was asked once, for the second.
C10_Witness ==
  /\ entry = "fetch_channel_videos" /\ pc = "done" /\ fo_ret.kind = "return"
  /\ Len(all_videos) = 2
  /\ all_videos[1].video_id # None /\ Len(all_videos[1].video_id[1]) = 11
  /\ Len(fo_ret.val) = 1
  /\ fo_ret.val[1].title = all_videos[2].title
  /\ Len(list_requests) = 1

---------------------------------------------------------------------------
(* Claims about fetch_multiple_channels *)

\* The last channel processed so far whose identifier is c.
LastOf(c) ==
  CHOOSE j \in 1..Len(fm_trace) :
    fm_trace[j].id = c /\ \A m \in (j + 1)..Len(fm_trace) : fm_trace[m].id # c

\* C1: for every list of channel identifiers, fetch_multiple_channels returns
\* a mapping with an entry for every identifier of the list: a channel whose
\* feed fetch fails maps to the empty list, every other channel to exactly the
\* list fetch_channel_videos returned for it; a failure on one channel never
\* aborts or alters the processing of the channels after it.
C1_FetchMany ==
  entry = "fetch_multiple_channels" =>
    /\ Len(fm_trace) = idx - 1
    /\ \A j \in 1..Len(fm_trace) :
         /\ fm_trace[j].id = channel_ids[j]
         /\ fm_trace[j].out.kind \in {"return", "raise"}
         /\ fm_trace[j].feed_failed => fm_trace[j].out.kind = "raise"
    /\ DOMAIN results = {channel_ids[j] : j \in 1..(idx - 1)}
    /\ \A c \in DOMAIN results :
         results[c] = IF fm_trace[LastOf(c)].out.kind = "raise" THEN <<>>
                      ELSE fm_trace[LastOf(c)].out.val
    /\ ret.kind # "raise"
    /\ pc = "done" =>
         /\ idx = Len(channel_ids) + 1
         /\ ret.kind = "return"
         /\ ret.val = results

\* The feed of the first of two channels failed, the second channel gave a
\* record, and the mapping returned holds the empty list and that record.
C1_Witness ==
  /\ entry = "fetch_multiple_channels" /\ pc = "done"
  /\ Len(channel_ids) = 2 /\ channel_ids[1] # channel_ids[2]
  /\ fm_trace[1].feed_failed
  /\ ret.val[channel_ids[1]] = <<>>
  /\ fm_trace[2].out.kind = "return"
  /\ Len(ret.val[channel_ids[2]]) = 1

====
